---- MODULE Spec2Model ----
(***************************************************************************)
(* Model of the game server: one Game actor (the simulation authority,     *)
(* src/game/mod.rs) and one Session actor per websocket connection         *)
(* (src/server.rs), talking through the Game's mailbox.                    *)
(*                                                                         *)
(* The monotonic clock (Instant) is counted in steps of CheckInterval       *)
(* seconds, the period of the session's liveness timer; the wall clock     *)
(* (chrono::Utc) is counted in milliseconds.  f32 values are modelled by   *)
(* integers; the inputs are chosen so that the products and quotients      *)
(* taken below are exact.                                                  *)
(*                                                                         *)
(* Spec is the protocol between all the sessions and the Game within one   *)
(* step of the monotonic clock (no liveness timer comes due).  SpecLive is *)
(* one connection and the Game with the monotonic clock advancing and the  *)
(* liveness timer firing.                                                  *)
(***************************************************************************)
EXTENDS Integers, Sequences, FiniteSets, TLC

----------------------------------------------------------------------------
(* Bounds of the model *)

\* text frames the peers send, all connections together
MaxCmds == 2

\* steps of CheckInterval seconds the monotonic clock advances
MaxClock == 3

\* milliseconds the wall clock advances
MaxUtc == 1

\* messages the Game's mailbox takes before Addr::send holds a message back
\* (Addr::do_send is not subject to it)
MailboxCapacity == 1

\* Commands that reach the Game in SpecGame
MaxGameCmds == 3

----------------------------------------------------------------------------
(* Program constants *)

CheckInterval == 5
Timeout == 10
ArenaW == 800
ArenaH == 600
InitHealth == 100
BulletSpeed == 300
MillisPerSec == 1000

----------------------------------------------------------------------------
(* Input sets *)

\* a Session's id (Uuid::new_v4 in Session::new): one fresh id per connection
Sessions == {1, 2}

\* the connection SpecLive follows
LiveSessions == {1}

\* keys Uuid::new_v4 hands out for Bullets: fresh, so disjoint from Sessions
BulletKeys == {10 + k : k \in 1..(IF MaxCmds > MaxGameCmds THEN MaxCmds ELSE MaxGameCmds)}

\* inbound envelopes that parse as Conversation<Vec<f32>>: any kind string,
\* a data array of any length
Frames == {
    [kind |-> "move", data |-> <<25, 300>>],
    [kind |-> "move", data |-> <<25>>],
    [kind |-> "fire", data |-> <<25, 300>>],
    [kind |-> "fire", data |-> <<>>],
    [kind |-> "jump", data |-> <<>>] }

\* envelopes for SpecGame: impulses that overflow f32 when they add up, a
\* second click point, short and empty data arrays, an unknown kind
GameFrames == {
    [kind |-> "move", data |-> <<25, 300>>],
    [kind |-> "move", data |-> <<60000, 0>>],
    [kind |-> "move", data |-> <<-60000, 0>>],
    [kind |-> "move", data |-> <<25>>],
    [kind |-> "fire", data |-> <<25, 300>>],
    [kind |-> "fire", data |-> <<475, 700>>],
    [kind |-> "fire", data |-> <<>>],
    [kind |-> "jump", data |-> <<>>] }

\* positions Player::new draws (fastrand::f32() * 800, fastrand::f32() * 600)
SpawnPoints == {<<775, 300>>}

----------------------------------------------------------------------------
(* State *)

VARIABLES
    now,        \* Instant::now(), in steps of CheckInterval seconds
    utc,        \* chrono::Utc::now().timestamp_millis()
    sstate,     \* Session actor: "New" | "Parked" | "Connecting" | "Active" | "Closing" | "Closed"
    bz,         \* Session.bz: instant of the last ping or pong
    lastFrame,  \* instant of the last inbound frame of any kind (creation at first)
    lastBeat,   \* instant of the last inbound ping or pong (creation at first)
    checked,    \* the liveness timer of the session has fired at this instant
    lastCheck,  \* what the last liveness check of the session did: "none" | "ping" | "stop"
    sent,       \* text frames the peers have sent
    discSent,   \* Disconnect notifications the session has sent
    mailbox,    \* the Game actor's mailbox (FIFO)
    game,       \* Game actor: "running" | "stopped" | "panicked"
    poisoned,   \* the Mutex around GameState is poisoned
    sessions,   \* Game.sessions: ids with a registered Recipient
    entities,   \* GameState.entities: key -> entity
    ts,         \* GameState.ts
    start_time, \* Game.start_time
    phase,      \* per session id, what the Game has handled: 0 nothing, 1 Connect,
                \* 2 Disconnect after Connect, 3 Disconnect without Connect
    lastBcast,  \* the last tick's broadcast: how many game_state messages each id was sent
    whole,      \* history: the entities as the handlers and ticks that ran to their end left them
    discarded,  \* history: the Command the Game dropped in its last step, if it did
    run         \* history: per id, the Player's velocity when the current run of moves
                \* began (at Connect or at the last tick) and the exact sum of its impulses

vars == <<now, utc, sstate, bz, lastFrame, lastBeat, checked, lastCheck, sent, discSent, mailbox, game,
          poisoned, sessions, entities, ts, start_time, phase, lastBcast, whole, discarded, run>>

sessVars == <<sstate, bz, lastFrame, lastBeat, checked, lastCheck, sent, discSent>>
gameVars == <<game, poisoned, sessions, entities, ts, start_time, phase, lastBcast,
              whole, discarded, run>>

----------------------------------------------------------------------------
(* Messages to the Game *)

Connect(id) == [type |-> "Connect", id |-> id, kind |-> "", data |-> <<>>]
Disconnect(id) == [type |-> "Disconnect", id |-> id, kind |-> "", data |-> <<>>]
WrappedConversation(id, kind, data) ==
    [type |-> "Command", id |-> id, kind |-> kind, data |-> data]

\* Addr::send / Addr::do_send: the message joins the mailbox unless the
\* Game's mailbox is closed (the actor is gone), when it is dropped
DoSend(box, alive, m) == IF alive THEN Append(box, m) ELSE box

GameAlive == game = "running"

----------------------------------------------------------------------------
(* f32: the finite values are integers of magnitude up to FMax; a result    *)
(* past FMax is an infinity, and NaN is unordered                           *)

\* the largest finite magnitude (f32::MAX on the scale of the model)
FMax == 100000

\* f32::INFINITY (its negative is f32::NEG_INFINITY) and f32::NAN
Inf == 1000000
NaN == 2000000

IsInf(x) == x = Inf \/ x = -Inf
IsFinite(x) == x /= NaN /\ ~IsInf(x)

\* an exact result rounded to f32
F(x) == IF x > FMax THEN Inf ELSE IF x < -FMax THEN -Inf ELSE x

\* a + b
FAdd(a, b) ==
    IF a = NaN \/ b = NaN THEN NaN
    ELSE IF IsInf(a) THEN (IF b = -a THEN NaN ELSE a)
    ELSE IF IsInf(b) THEN b
    ELSE F(a + b)

\* a - b
FSub(a, b) == FAdd(a, IF b = NaN THEN NaN ELSE -b)

\* a * b
FMul(a, b) ==
    IF a = NaN \/ b = NaN THEN NaN
    ELSE IF IsInf(a) \/ IsInf(b)
         THEN (IF a = 0 \/ b = 0 THEN NaN
               ELSE IF (a > 0) = (b > 0) THEN Inf ELSE -Inf)
    ELSE F(a * b)

\* a < b: false when either is NaN
FLt(a, b) == a /= NaN /\ b /= NaN /\ a < b

----------------------------------------------------------------------------
(* Entities *)

Player(id, pos) ==
    [kind |-> "Player", id |-> id, owner |-> 0, health |-> InitHealth,
     position |-> pos, velocity |-> <<0, 0>>]

Bullet(key, owner, pos, vel) ==
    [kind |-> "Bullet", id |-> key, owner |-> owner, health |-> 0,
     position |-> pos, velocity |-> vel]

\* multiplication by -1: a bounce that loses no speed
Reflect(v) == IF v = NaN THEN NaN ELSE -v

\* f32 multiplication by -0.8
Damp(v) == IF v = NaN THEN NaN ELSE IF IsInf(v) THEN -v ELSE (v * (-4)) \div 5

\* one axis of Player::update after the position was advanced
ClampAxis(p, v, hi) ==
    IF FLt(p, 0) THEN <<0, Damp(v)>>
    ELSE IF FLt(hi, p) THEN <<hi, Damp(v)>>
    ELSE <<p, v>>

PlayerUpdate(e, delta) ==
    LET x == ClampAxis(FAdd(e.position[1], FMul(e.velocity[1], delta)), e.velocity[1], ArenaW)
        y == ClampAxis(FAdd(e.position[2], FMul(e.velocity[2], delta)), e.velocity[2], ArenaH)
    IN  [e EXCEPT !.position = <<x[1], y[1]>>, !.velocity = <<x[2], y[2]>>]

BulletUpdate(e, delta) ==
    [e EXCEPT !.position = <<FAdd(e.position[1], FMul(e.velocity[1], delta)),
                             FAdd(e.position[2], FMul(e.velocity[2], delta))>>]

EntityUpdate(e, delta) ==
    IF e.kind = "Player" THEN PlayerUpdate(e, delta) ELSE BulletUpdate(e, delta)

----------------------------------------------------------------------------
(* Vector2f *)

Abs(x) == IF x < 0 THEN -x ELSE x

\* f32::sqrt on the integers: the root r with lo <= r < hi, by bisection
RECURSIVE ISqrtIn(_, _, _)
ISqrtIn(n, lo, hi) ==
    IF hi - lo <= 1 THEN lo
    ELSE LET mid == (lo + hi) \div 2
         IN  IF mid * mid <= n THEN ISqrtIn(n, mid, hi) ELSE ISqrtIn(n, lo, mid)

\* Vector2f::from_angle(v.angle()) * s: the vector of length s along v;
\* atan2(0, 0) = 0, so the zero vector gives direction (1, 0); the angle of
\* a vector with a NaN component is NaN, and so are its sine and cosine
Scaled(v, s) ==
    IF v[1] = NaN \/ v[2] = NaN THEN <<NaN, NaN>>
    ELSE IF v[1] = 0 /\ v[2] = 0 THEN <<s, 0>>
    ELSE LET len == ISqrtIn(v[1] * v[1] + v[2] * v[2], 0, Abs(v[1]) + Abs(v[2]) + 1)
         IN  <<(v[1] * s) \div len, (v[2] * s) \div len>>

VSub(a, b) == <<FSub(a[1], b[1]), FSub(a[2], b[2])>>

----------------------------------------------------------------------------
(* Initial state: Game::default().start() has run, no connection yet *)

NoBcast == [att |-> [s \in Sessions |-> 0], ok |-> [s \in Sessions |-> 0]]

\* no Command dropped
NoCmd == [id |-> 0, kind |-> ""]

\* no move handled yet, from rest
NoRun == [from |-> <<0, 0>>, by |-> <<0, 0>>]

Init ==
    /\ now = 0
    /\ utc = 0
    /\ sstate = [s \in Sessions |-> "New"]
    /\ bz = [s \in Sessions |-> 0]
    /\ lastFrame = [s \in Sessions |-> 0]
    /\ lastBeat = [s \in Sessions |-> 0]
    /\ checked = [s \in Sessions |-> TRUE]
    /\ lastCheck = [s \in Sessions |-> "none"]
    /\ sent = 0
    /\ discSent = [s \in Sessions |-> 0]
    /\ mailbox = <<>>
    /\ game = "running"
    /\ poisoned = FALSE
    /\ sessions = {}
    /\ entities = <<>>
    /\ ts = 0
    /\ start_time = 0
    /\ phase = [s \in Sessions |-> 0]
    /\ lastBcast = NoBcast
    /\ whole = <<>>
    /\ discarded = NoCmd
    /\ run = [s \in Sessions |-> NoRun]

----------------------------------------------------------------------------
(* Session actor *)

\* the Session actor exists and its mailbox takes messages
SessionAlive(s) == sstate[s] \in {"Parked", "Connecting", "Active", "Closing"}

\* Session::new, then Actor::started: the liveness timer is armed and Connect
\* is sent with Addr::send; the context waits for the answer.  A full mailbox
\* makes Addr::send keep the message until there is room.
Started(s) ==
    /\ sstate[s] = "New"
    /\ bz' = [bz EXCEPT ![s] = now]
    /\ lastFrame' = [lastFrame EXCEPT ![s] = now]
    /\ lastBeat' = [lastBeat EXCEPT ![s] = now]
    /\ checked' = [checked EXCEPT ![s] = TRUE]
    /\ IF GameAlive /\ Len(mailbox) >= MailboxCapacity
       THEN /\ sstate' = [sstate EXCEPT ![s] = "Parked"]
            /\ UNCHANGED mailbox
       ELSE /\ sstate' = [sstate EXCEPT ![s] = "Connecting"]
            /\ mailbox' = DoSend(mailbox, GameAlive, Connect(s))
    /\ UNCHANGED <<now, lastCheck, sent, discSent>>
    /\ UNCHANGED <<utc, gameVars>>

\* the held Connect enters the mailbox once there is room
FlushConnect(s) ==
    /\ sstate[s] = "Parked"
    /\ GameAlive
    /\ Len(mailbox) < MailboxCapacity
    /\ sstate' = [sstate EXCEPT ![s] = "Connecting"]
    /\ mailbox' = Append(mailbox, Connect(s))
    /\ UNCHANGED <<now, bz, lastFrame, lastBeat, checked, lastCheck, sent, discSent>>
    /\ UNCHANGED <<utc, gameVars>>

\* the answer to Connect arrives: Ok(_) => {}
ConnectDone(s) ==
    /\ sstate[s] = "Connecting"
    /\ phase[s] \in {1, 2}
    /\ sstate' = [sstate EXCEPT ![s] = "Active"]
    /\ UNCHANGED <<now, bz, lastFrame, lastBeat, checked, lastCheck, sent, discSent, mailbox>>
    /\ UNCHANGED <<utc, gameVars>>

\* the request fails because the Game is gone: _ => ctx.stop()
ConnectFailed(s) ==
    /\ sstate[s] \in {"Parked", "Connecting"}
    /\ phase[s] = 0
    /\ ~GameAlive
    /\ sstate' = [sstate EXCEPT ![s] = "Closing"]
    /\ UNCHANGED <<now, bz, lastFrame, lastBeat, checked, lastCheck, sent, discSent, mailbox>>
    /\ UNCHANGED <<utc, gameVars>>

\* Check that stops the session as soon as the timeout is reached
CheckEarly(s) ==
    /\ sstate[s] = "Active"
    /\ ~checked[s]
    /\ checked' = [checked EXCEPT ![s] = TRUE]
    /\ IF (now - bz[s]) * CheckInterval >= Timeout
       THEN /\ sstate' = [sstate EXCEPT ![s] = "Closing"]
            /\ lastCheck' = [lastCheck EXCEPT ![s] = "stop"]
       ELSE /\ sstate' = sstate
            /\ lastCheck' = [lastCheck EXCEPT ![s] = "ping"]
    /\ UNCHANGED <<now, bz, lastFrame, lastBeat, sent, discSent, mailbox>>
    /\ UNCHANGED <<utc, gameVars>>

\* Check that stops the session only after twice the timeout
CheckLate(s) ==
    /\ sstate[s] = "Active"
    /\ ~checked[s]
    /\ checked' = [checked EXCEPT ![s] = TRUE]
    /\ IF (now - bz[s]) * CheckInterval > 2 * Timeout
       THEN /\ sstate' = [sstate EXCEPT ![s] = "Closing"]
            /\ lastCheck' = [lastCheck EXCEPT ![s] = "stop"]
       ELSE /\ sstate' = sstate
            /\ lastCheck' = [lastCheck EXCEPT ![s] = "ping"]
    /\ UNCHANGED <<now, bz, lastFrame, lastBeat, sent, discSent, mailbox>>
    /\ UNCHANGED <<utc, gameVars>>

\* the liveness timer of Session::bz fires
Check(s) ==
    /\ sstate[s] = "Active"
    /\ ~checked[s]
    /\ checked' = [checked EXCEPT ![s] = TRUE]
    /\ IF (now - bz[s]) * CheckInterval > Timeout
       THEN /\ sstate' = [sstate EXCEPT ![s] = "Closing"]
            /\ lastCheck' = [lastCheck EXCEPT ![s] = "stop"]
       ELSE /\ sstate' = sstate
            /\ lastCheck' = [lastCheck EXCEPT ![s] = "ping"]
    /\ UNCHANGED <<now, bz, lastFrame, lastBeat, sent, discSent, mailbox>>
    /\ UNCHANGED <<utc, gameVars>>

\* Ok(ws::Message::Ping(msg))
RecvPing(s) ==
    /\ sstate[s] = "Active"
    /\ bz' = [bz EXCEPT ![s] = now]
    /\ lastFrame' = [lastFrame EXCEPT ![s] = now]
    /\ lastBeat' = [lastBeat EXCEPT ![s] = now]
    /\ UNCHANGED <<now, sstate, checked, lastCheck, sent, discSent, mailbox>>
    /\ UNCHANGED <<utc, gameVars>>

\* RecvPong that leaves Session.bz as it is
RecvPongNoRefresh(s) ==
    /\ sstate[s] = "Active"
    /\ lastFrame' = [lastFrame EXCEPT ![s] = now]
    /\ lastBeat' = [lastBeat EXCEPT ![s] = now]
    /\ UNCHANGED <<now, sstate, bz, checked, lastCheck, sent, discSent, mailbox>>
    /\ UNCHANGED <<utc, gameVars>>

\* Ok(ws::Message::Pong(_))
RecvPong(s) ==
    /\ sstate[s] = "Active"
    /\ bz' = [bz EXCEPT ![s] = now]
    /\ lastFrame' = [lastFrame EXCEPT ![s] = now]
    /\ lastBeat' = [lastBeat EXCEPT ![s] = now]
    /\ UNCHANGED <<now, sstate, checked, lastCheck, sent, discSent, mailbox>>
    /\ UNCHANGED <<utc, gameVars>>

\* RecvClose that notifies the Game itself, before the actor stops
RecvCloseNotifies(s) ==
    /\ sstate[s] = "Active"
    /\ sstate' = [sstate EXCEPT ![s] = "Closing"]
    /\ lastFrame' = [lastFrame EXCEPT ![s] = now]
    /\ discSent' = [discSent EXCEPT ![s] = @ + 1]
    /\ mailbox' = DoSend(mailbox, GameAlive, Disconnect(s))
    /\ UNCHANGED <<now, bz, lastBeat, checked, lastCheck, sent>>
    /\ UNCHANGED <<utc, gameVars>>

\* Ok(ws::Message::Close(reason))
RecvClose(s) ==
    /\ sstate[s] = "Active"
    /\ sstate' = [sstate EXCEPT ![s] = "Closing"]
    /\ lastFrame' = [lastFrame EXCEPT ![s] = now]
    /\ UNCHANGED <<now, bz, lastBeat, checked, lastCheck, sent, discSent, mailbox>>
    /\ UNCHANGED <<utc, gameVars>>

\* RecvText of a context that does not wait for the answer to Connect
RecvTextNoWait(s, kind, data) ==
    /\ sstate[s] \in {"Parked", "Connecting", "Active"}
    /\ sent < MaxCmds
    /\ sent' = sent + 1
    /\ lastFrame' = [lastFrame EXCEPT ![s] = now]
    /\ mailbox' = DoSend(mailbox, GameAlive, WrappedConversation(s, kind, data))
    /\ UNCHANGED <<now, sstate, bz, lastBeat, checked, lastCheck, discSent>>
    /\ UNCHANGED <<utc, gameVars>>

\* Ok(ws::Message::Text(s)) that parses as Conversation<Vec<f32>>
RecvText(s, kind, data) ==
    /\ sstate[s] = "Active"
    /\ sent < MaxCmds
    /\ sent' = sent + 1
    /\ lastFrame' = [lastFrame EXCEPT ![s] = now]
    /\ mailbox' = DoSend(mailbox, GameAlive, WrappedConversation(s, kind, data))
    /\ UNCHANGED <<now, sstate, bz, lastBeat, checked, lastCheck, discSent>>
    /\ UNCHANGED <<utc, gameVars>>

\* Ok(ws::Message::Text(s)) that does not parse: Err(e) => return
RecvBadText(s) ==
    /\ sstate[s] = "Active"
    /\ sent < MaxCmds
    /\ sent' = sent + 1
    /\ lastFrame' = [lastFrame EXCEPT ![s] = now]
    /\ UNCHANGED <<now, sstate, bz, lastBeat, checked, lastCheck, discSent, mailbox>>
    /\ UNCHANGED <<utc, gameVars>>

\* the connection ends without a close frame (the stream finishes or the
\* context is dropped): the actor stops
ConnectionLost(s) ==
    /\ sstate[s] \in {"Parked", "Connecting", "Active"}
    /\ sstate' = [sstate EXCEPT ![s] = "Closing"]
    /\ UNCHANGED <<now, bz, lastFrame, lastBeat, checked, lastCheck, sent, discSent, mailbox>>
    /\ UNCHANGED <<utc, gameVars>>

\* Actor::stopped; the Session and its fields are dropped afterwards
Stopped(s) ==
    /\ sstate[s] = "Closing"
    /\ sstate' = [sstate EXCEPT ![s] = "Closed"]
    /\ discSent' = [discSent EXCEPT ![s] = @ + 1]
    /\ mailbox' = DoSend(mailbox, GameAlive, Disconnect(s))
    /\ bz' = [bz EXCEPT ![s] = 0]
    /\ lastFrame' = [lastFrame EXCEPT ![s] = 0]
    /\ lastBeat' = [lastBeat EXCEPT ![s] = 0]
    /\ checked' = [checked EXCEPT ![s] = TRUE]
    /\ UNCHANGED <<now, lastCheck, sent>>
    /\ UNCHANGED <<utc, gameVars>>

\* a millisecond passes on the wall clock
UtcPasses ==
    /\ utc < MaxUtc
    /\ utc' = utc + 1
    /\ UNCHANGED <<now, sessVars, mailbox, gameVars>>

\* CheckInterval seconds pass on both clocks; every armed liveness timer
\* becomes due
TimePasses ==
    /\ now < MaxClock
    /\ \A s \in Sessions : sstate[s] = "Active" => checked[s]
    /\ now' = now + 1
    /\ utc' = utc + CheckInterval * MillisPerSec
    /\ checked' = [s \in Sessions |-> ~SessionAlive(s)]
    /\ UNCHANGED <<sstate, bz, lastFrame, lastBeat, lastCheck, sent, discSent, mailbox>>
    /\ UNCHANGED gameVars

----------------------------------------------------------------------------
(* Game actor *)

\* a message is at the head of the mailbox and the actor takes it
Takes(type) ==
    /\ GameAlive
    /\ mailbox /= <<>>
    /\ Head(mailbox).type = type
    /\ mailbox' = Tail(mailbox)

\* entities.insert(key, e)
Insert(ents, key, e) ==
    [k \in DOMAIN ents \cup {key} |-> IF k = key THEN e ELSE ents[k]]

\* entities.remove(&key)
Remove(ents, key) == [k \in DOMAIN ents \ {key} |-> ents[k]]

\* Uuid::new_v4() for a Bullet: a key no entity and no session has
FreshKey(ents) ==
    CHOOSE k \in BulletKeys :
        /\ k \notin DOMAIN ents
        /\ \A j \in BulletKeys : j \notin DOMAIN ents => k <= j

\* ConnectBody without the registry insert
ConnectBodyNoRegistry(id, pos) ==
    /\ sessions' = sessions
    /\ entities' = Insert(entities, id, Player(id, pos))

\* Handler<Connect>: the body after the lock was taken
ConnectBody(id, pos) ==
    /\ sessions' = sessions \cup {id}
    /\ entities' = Insert(entities, id, Player(id, pos))

\* Handler<Connect>
HandleConnect ==
    /\ Takes("Connect")
    /\ LET id == Head(mailbox).id IN
       /\ phase' = [phase EXCEPT ![id] = 1]
       /\ IF poisoned
          THEN /\ game' = "stopped"
               /\ UNCHANGED <<sessions, entities, whole, run>>
          ELSE /\ game' = game
               /\ \E pos \in SpawnPoints : ConnectBody(id, pos)
               /\ whole' = entities'
               /\ run' = [run EXCEPT ![id] = NoRun]
    /\ discarded' = NoCmd
    /\ UNCHANGED <<poisoned, ts, start_time, lastBcast>>
    /\ UNCHANGED <<now, utc, sessVars>>

\* Disconnect that removes the Player and the Bullets it owns
DisconnectBodyRemovesBullets(id) ==
    /\ sessions' = sessions \ {id}
    /\ entities' = [k \in {j \in DOMAIN entities :
                              j /= id /\ entities[j].owner /= id} |-> entities[k]]

\* Disconnect that removes the registry entry and leaves the Player
DisconnectBodyKeepsPlayer(id) ==
    /\ sessions' = sessions \ {id}
    /\ entities' = entities

\* Handler<Disconnect>: the body after the lock was taken
DisconnectBody(id) ==
    /\ sessions' = sessions \ {id}
    /\ entities' = Remove(entities, id)

\* Handler<Disconnect>
HandleDisconnect ==
    /\ Takes("Disconnect")
    /\ LET id == Head(mailbox).id IN
       /\ phase' = [phase EXCEPT ![id] = IF @ = 1 THEN 2 ELSE 3]
       /\ IF poisoned
          THEN /\ game' = "stopped"
               /\ UNCHANGED <<sessions, entities, whole, run>>
          ELSE /\ game' = game
               /\ DisconnectBody(id)
               /\ whole' = entities'
               /\ run' = [run EXCEPT ![id] = NoRun]
    /\ discarded' = NoCmd
    /\ UNCHANGED <<poisoned, ts, start_time, lastBcast>>
    /\ UNCHANGED <<now, utc, sessVars>>

\* the Player the command is for: entities.get(&msg.0) and the downcast
HasPlayer(ents, id) == id \in DOMAIN ents /\ ents[id].kind = "Player"

\* "move": data[0] is read and added, then data[1]; an index past the end
\* of the Vec panics.  [ents |-> the map afterwards, panic |-> it panicked]
MoveArm(ents, id, data) ==
    IF ~HasPlayer(ents, id) THEN [ents |-> ents, panic |-> FALSE]
    ELSE IF Len(data) < 1 THEN [ents |-> ents, panic |-> TRUE]
    ELSE LET vx == [ents EXCEPT ![id].velocity[1] = FAdd(@, data[1])] IN
         IF Len(data) < 2 THEN [ents |-> vx, panic |-> TRUE]
         ELSE [ents |-> [vx EXCEPT ![id].velocity[2] = FAdd(@, data[2])], panic |-> FALSE]

\* "fire" that spawns a Bullet at the origin for an id without a Player
FireArmAnyId(ents, id, data) ==
    IF Len(data) < 2 THEN [ents |-> ents, panic |-> TRUE]
    ELSE LET click_pos == <<data[1], data[2]>>
             player_pos == IF HasPlayer(ents, id) THEN ents[id].position ELSE <<0, 0>>
             velocity == Scaled(VSub(click_pos, player_pos), BulletSpeed)
             key == FreshKey(ents)
         IN  [ents |-> Insert(ents, key, Bullet(key, id, player_pos, velocity)),
              panic |-> FALSE]

\* "fire": the click point is read from data[0] and data[1], then the Bullet
\* is inserted under a fresh key
FireArm(ents, id, data) ==
    IF ~HasPlayer(ents, id) THEN [ents |-> ents, panic |-> FALSE]
    ELSE IF Len(data) < 2 THEN [ents |-> ents, panic |-> TRUE]
    ELSE LET click_pos == <<data[1], data[2]>>
             player_pos == ents[id].position
             velocity == Scaled(VSub(click_pos, player_pos), BulletSpeed)
             key == FreshKey(ents)
         IN  [ents |-> Insert(ents, key, Bullet(key, id, player_pos, velocity)),
              panic |-> FALSE]

\* match kind { "move" => .., "fire" => .., _ => {} }
CommandBody(ents, id, kind, data) ==
    IF kind = "move" THEN MoveArm(ents, id, data)
    ELSE IF kind = "fire" THEN FireArm(ents, id, data)
    ELSE [ents |-> ents, panic |-> FALSE]

\* HandleCommand of an actor that outlives a panic of its handler
HandleCommandOutlivesPanic ==
    /\ Takes("Command")
    /\ LET m == Head(mailbox)
           r == CommandBody(entities, m.id, m.kind, m.data)
       IN  /\ entities' = r.ents
           /\ whole' = IF r.panic THEN whole ELSE r.ents
    /\ UNCHANGED <<game, poisoned, discarded, run>>
    /\ UNCHANGED <<sessions, ts, start_time, phase, lastBcast>>
    /\ UNCHANGED <<now, utc, sessVars>>

\* Handler<WrappedConversation<Vec<f32>>>.  A panic unwinds through the
\* MutexGuard, which poisons the lock, and ends the task that runs the actor.
HandleCommand ==
    /\ Takes("Command")
    /\ LET m == Head(mailbox) IN
       IF poisoned
       THEN /\ game' = "stopped"
            /\ discarded' = NoCmd
            /\ UNCHANGED <<poisoned, entities, whole, run>>
       ELSE LET r == CommandBody(entities, m.id, m.kind, m.data)
                drops == ~HasPlayer(entities, m.id) \/ m.kind \notin {"move", "fire"}
                moves == ~drops /\ ~r.panic /\ m.kind = "move"
            IN
            /\ entities' = r.ents
            /\ poisoned' = r.panic
            /\ game' = IF r.panic THEN "panicked" ELSE game
            /\ whole' = IF r.panic THEN whole ELSE r.ents
            /\ discarded' = IF drops THEN [id |-> m.id, kind |-> m.kind] ELSE NoCmd
            /\ run' = IF moves
                      THEN [run EXCEPT ![m.id].by = <<@[1] + m.data[1], @[2] + m.data[2]>>]
                      ELSE run
    /\ UNCHANGED <<sessions, ts, start_time, phase, lastBcast>>
    /\ UNCHANGED <<now, utc, sessVars>>

\* notify that sends to the first registry entry only
NotifyFirstOnly(todo, alive, acc) ==
    IF todo = {} THEN acc
    ELSE LET id == CHOOSE x \in todo : \A y \in todo : x <= y
             ok == IF id \in alive THEN 1 ELSE 0
         IN  [att |-> [acc.att EXCEPT ![id] = @ + 1],
              ok |-> [acc.ok EXCEPT ![id] = @ + ok]]

\* notify that gives up at the first do_send that fails
RECURSIVE NotifyAbortOnFailure(_, _, _)
NotifyAbortOnFailure(todo, alive, acc) ==
    IF todo = {} THEN acc
    ELSE LET id == CHOOSE x \in todo : \A y \in todo : x <= y
             att == [acc.att EXCEPT ![id] = @ + 1]
         IN  IF id \in alive
             THEN NotifyAbortOnFailure(todo \ {id}, alive,
                      [att |-> att, ok |-> [acc.ok EXCEPT ![id] = @ + 1]])
             ELSE [att |-> att, ok |-> acc.ok]

\* Game::notify: one do_send per registry entry, its result ignored
RECURSIVE Notify(_, _, _)
Notify(todo, alive, acc) ==
    IF todo = {} THEN acc
    ELSE LET id == CHOOSE x \in todo : \A y \in todo : x <= y
             ok == IF id \in alive THEN 1 ELSE 0
         IN  Notify(todo \ {id}, alive,
                    [att |-> [acc.att EXCEPT ![id] = @ + 1],
                     ok |-> [acc.ok EXCEPT ![id] = @ + ok]])

\* the for loop of the tick: entity.update(delta) on every entity
UpdateAll(ents, delta) == [k \in DOMAIN ents |-> EntityUpdate(ents[k], delta)]

\* the closure of Game::start_ticker, run by the 16 ms interval
Tick ==
    /\ GameAlive
    /\ start_time' = now
    /\ IF poisoned
       THEN UNCHANGED <<entities, ts, lastBcast, whole, discarded, run>>
       ELSE LET delta == (now - start_time) * CheckInterval IN
            /\ entities' = UpdateAll(entities, delta)
            /\ ts' = utc
            /\ lastBcast' = Notify(sessions, {s \in Sessions : SessionAlive(s)}, NoBcast)
            /\ whole' = entities'
            /\ discarded' = NoCmd
            /\ run' = [s \in Sessions |->
                         IF HasPlayer(entities', s)
                         THEN [from |-> entities'[s].velocity, by |-> <<0, 0>>]
                         ELSE NoRun]
    /\ UNCHANGED <<game, poisoned, sessions, phase, mailbox>>
    /\ UNCHANGED <<now, utc, sessVars>>

----------------------------------------------------------------------------
(* The Game's senders without their protocol: the messages of the sessions  *)
(* reach the Game in any order, one at a time                               *)

\* the Connect of a session reaches the mailbox (one per session id)
ArriveConnect(s) ==
    /\ sstate[s] = "New"
    /\ mailbox = <<>>
    /\ sstate' = [sstate EXCEPT ![s] = "Active"]
    /\ mailbox' = DoSend(mailbox, GameAlive, Connect(s))
    /\ UNCHANGED <<now, bz, lastFrame, lastBeat, checked, lastCheck, sent, discSent>>
    /\ UNCHANGED <<utc, gameVars>>

\* the Disconnect of a session reaches the mailbox (one per session id),
\* whether or not its Connect ever did
ArriveDisconnect(s) ==
    /\ sstate[s] \in {"New", "Active"}
    /\ mailbox = <<>>
    /\ sstate' = [sstate EXCEPT ![s] = "Closed"]
    /\ discSent' = [discSent EXCEPT ![s] = @ + 1]
    /\ mailbox' = DoSend(mailbox, GameAlive, Disconnect(s))
    /\ UNCHANGED <<now, bz, lastFrame, lastBeat, checked, lastCheck, sent>>
    /\ UNCHANGED <<utc, gameVars>>

\* a Command tagged with a session id reaches the mailbox, before, between or
\* after the Connect and the Disconnect of that id
ArriveCommand(s, kind, data) ==
    /\ sent < MaxGameCmds
    /\ mailbox = <<>>
    /\ sent' = sent + 1
    /\ mailbox' = DoSend(mailbox, GameAlive, WrappedConversation(s, kind, data))
    /\ UNCHANGED <<now, sstate, bz, lastFrame, lastBeat, checked, lastCheck, discSent>>
    /\ UNCHANGED <<utc, gameVars>>

\* CheckInterval seconds pass on both clocks (no session timer in SpecGame)
ClockPasses ==
    /\ now < MaxClock
    /\ now' = now + 1
    /\ utc' = utc + CheckInterval * MillisPerSec
    /\ UNCHANGED <<sessVars, mailbox, gameVars>>

----------------------------------------------------------------------------
(* Specification *)

\* what one connection does, its liveness timer apart
SessionStep(s) ==
    \/ Started(s)
    \/ ConnectDone(s)
    \/ RecvPing(s)
    \/ RecvPong(s)
    \/ RecvClose(s)
    \/ \E f \in Frames : RecvText(s, f.kind, f.data)
    \/ RecvBadText(s)
    \/ ConnectionLost(s)
    \/ Stopped(s)

GameStep ==
    \/ HandleConnect
    \/ HandleDisconnect
    \/ HandleCommand
    \/ Tick

Next ==
    \/ \E s \in Sessions : SessionStep(s)
    \/ \E s \in Sessions : FlushConnect(s)
    \/ \E s \in Sessions : ConnectFailed(s)
    \/ GameStep
    \/ UtcPasses

Spec == Init /\ [][Next]_vars

NextLive ==
    \/ \E s \in LiveSessions : SessionStep(s)
    \/ \E s \in LiveSessions : Check(s)
    \/ TimePasses
    \/ GameStep

SpecLive == Init /\ [][NextLive]_vars

NextGame ==
    \/ \E s \in LiveSessions : ArriveConnect(s)
    \/ \E s \in LiveSessions : ArriveDisconnect(s)
    \/ \E s \in Sessions : \E f \in GameFrames : ArriveCommand(s, f.kind, f.data)
    \/ ClockPasses
    \/ GameStep

SpecGame == Init /\ [][NextGame]_vars

----------------------------------------------------------------------------
(* Properties *)

PlayerIds == {k \in DOMAIN entities : entities[k].kind = "Player"}
BulletIds == {k \in DOMAIN entities : entities[k].kind = "Bullet"}

\* C1: between two handler executions the ids of the session registry are
\* exactly the ids of the Player entities of the world state.
C1_RegistryMatchesPlayers == sessions = PlayerIds

\* one session registered with its Player, another already removed, and a
\* Bullet in the world
C1_Witness ==
    \E s, t \in Sessions :
        /\ s \in sessions /\ s \in PlayerIds
        /\ phase[t] = 2
        /\ BulletIds /= {}

\* C2: a session sends no Disconnect before it stops and exactly one when it
\* stops, whichever way it came to stop.
C2_ExactlyOneDisconnect ==
    \A s \in Sessions : discSent[s] = (IF sstate[s] = "Closed" THEN 1 ELSE 0)

\* one session stopped without ever being registered (its registration
\* failed), another stopped after it was registered
C2_Witness ==
    \E s, t \in Sessions :
        /\ sstate[s] = "Closed" /\ phase[s] = 0 /\ ~GameAlive /\ discSent[s] = 1
        /\ sstate[t] = "Closed" /\ phase[t] \in {1, 2} /\ discSent[t] = 1

\* C3: the Game handles every Command a session forwards without failing:
\* whatever frames the peers send, the actor keeps running.
C3_AuthoritySurvivesInput == game = "running"

\* the messages of session s that precede position i of the mailbox
Earlier(s, i, type) == {j \in 1..(i - 1) : mailbox[j].id = s /\ mailbox[j].type = type}

\* C4: the Game gets the messages of one session in the order Connect,
\* Commands, Disconnect: a Command waiting in the mailbox has its Connect
\* handled or ahead of it and no Disconnect of its session handled or ahead of
\* it; Connect and Disconnect are sent at most once.
C4_PerSessionOrder ==
    \A i \in 1..Len(mailbox) :
        LET m == mailbox[i] IN
        /\ m.type = "Command" =>
              /\ phase[m.id] = 1 \/ (phase[m.id] = 0 /\ Earlier(m.id, i, "Connect") /= {})
              /\ Earlier(m.id, i, "Disconnect") = {}
        /\ m.type = "Connect" =>
              /\ phase[m.id] = 0
              /\ Earlier(m.id, i, "Connect") = {}
              /\ Earlier(m.id, i, "Disconnect") = {}
        /\ m.type = "Disconnect" =>
              /\ phase[m.id] \in {0, 1}
              /\ Earlier(m.id, i, "Disconnect") = {}

\* a Command of a session waits in the mailbox with the session's Disconnect
\* behind it
C4_Witness ==
    \E i, j \in 1..Len(mailbox) :
        /\ i < j
        /\ mailbox[i].type = "Command"
        /\ mailbox[j].type = "Disconnect"
        /\ mailbox[i].id = mailbox[j].id
        /\ phase[mailbox[i].id] = 1

\* seconds since the value of Session.bz
Idle(s) == (now - bz[s]) * CheckInterval

\* the step is the liveness check of s
CheckStep(s) == sstate[s] = "Active" /\ ~checked[s] /\ checked'[s]

\* the step is the liveness check of s and it stops the session
ClosedByCheck(s) == CheckStep(s) /\ sstate'[s] = "Closing"

C6_TimeoutClosesAndRemoves ==
    /\ [][\A s \in Sessions :
             (CheckStep(s) /\ Idle(s) > Timeout) =>
                 (sstate'[s] = "Closing" /\ lastCheck'[s] = "stop")]_vars
    /\ [](\A s \in Sessions :
             (sstate[s] = "Active" /\ checked[s]) => Idle(s) <= Timeout)
    /\ [](\A s \in Sessions :
             lastCheck[s] = "stop" =>
                 /\ sstate[s] \in {"Closing", "Closed"}
                 /\ discSent[s] = (IF sstate[s] = "Closed" THEN 1 ELSE 0)
                 /\ phase[s] \in {2, 3} => (s \notin sessions /\ s \notin DOMAIN entities))

\* a session stopped by its liveness check, its Disconnect handled
C6_Witness ==
    \E s \in Sessions :
        /\ lastCheck[s] = "stop"
        /\ sstate[s] = "Closed"
        /\ discSent[s] = 1
        /\ phase[s] = 2
        /\ GameAlive

C9_DeliveryFailureIsolated ==
    [][/\ Tick => /\ \A s \in sessions : SessionAlive(s) => lastBcast'.ok[s] = 1
                  /\ \A s \in sessions : ~SessionAlive(s) => lastBcast'.ok[s] = 0
                  /\ game' = game
                  /\ sessions' = sessions
       /\ \A s \in sessions \ sessions' :
             /\ HandleDisconnect
             /\ Head(mailbox).id = s]_vars

\* the last tick failed to deliver to a stopped session that is still in the
\* registry and delivered to a running session that comes after it
C9_Witness ==
    \E s, t \in Sessions :
        /\ s < t
        /\ s \in sessions /\ sstate[s] = "Closed"
        /\ lastBcast.att[s] = 1 /\ lastBcast.ok[s] = 0
        /\ t \in sessions /\ lastBcast.ok[t] = 1
        /\ GameAlive

\* C10: once the Game has handled Connect and then Disconnect of an id, the
\* registry and the world state hold nothing under that id; handling a
\* Disconnect of an id that is in neither changes neither.
C10_ConnectDisconnectSymmetry ==
    /\ [](\A s \in Sessions :
             phase[s] = 2 => (s \notin sessions /\ s \notin DOMAIN entities))
    /\ [][(HandleDisconnect /\ Head(mailbox).id \notin sessions \cup DOMAIN entities) =>
             (sessions' = sessions /\ entities' = entities)]_vars

\* one session connected, fired and disconnected (its Bullet is still in the
\* world), the Disconnect of another that never was registered handled too
C10_Witness ==
    \E s, t \in Sessions :
        /\ phase[s] = 2
        /\ \E k \in BulletIds : entities[k].owner = s
        /\ phase[t] = 3
        /\ GameAlive

\* C11: a text frame whose data array does not have exactly two elements is
\* discarded by the session, so every Command a session forwards to the Game
\* carries a data array of two elements.
C11_OnlyPairsForwarded ==
    \A i \in 1..Len(mailbox) :
        mailbox[i].type = "Command" => Len(mailbox[i].data) = 2

\* C12: a Command for an id that has no Player, and a Command of a kind other
\* than "move" and "fire", changes neither the entities nor the timestamp nor
\* the registry and does not fail, whatever its data.
C12_DroppedCommandChangesNothing ==
    [][(/\ HandleCommand
        /\ ~poisoned
        /\ \/ ~HasPlayer(entities, Head(mailbox).id)
           \/ Head(mailbox).kind \notin {"move", "fire"})
       => (/\ entities' = entities
           /\ ts' = ts
           /\ sessions' = sessions
           /\ game' = game
           /\ ~poisoned')]_vars

\* the Game has handled Connect and Disconnect of an id and has just dropped a
\* fire of that id: no Bullet was spawned
C12_Witness ==
    \E s \in Sessions :
        /\ phase[s] = 2
        /\ discarded = [id |-> s, kind |-> "fire"]
        /\ BulletIds = {}
        /\ GameAlive

\* C13: the world state a tick updates and broadcasts is the one left by the
\* handlers and ticks that ran to their end: while the Game runs no command is
\* applied in part, and a tick's snapshot is that state with every entity
\* updated once.
C13_SnapshotOfWholeCommands ==
    /\ [](GameAlive => entities = whole)
    /\ [][(Tick /\ ~poisoned) =>
             (/\ entities' = UpdateAll(whole, (now - start_time) * CheckInterval)
              /\ ts' = utc)]_vars

\* a move was applied in part (the handler panicked after velocity.x) after a
\* tick had broadcast a snapshot: the Game is gone and broadcasts no more
C13_Witness ==
    \E s \in Sessions :
        /\ game = "panicked"
        /\ HasPlayer(entities, s) /\ HasPlayer(whole, s)
        /\ entities[s].velocity /= whole[s].velocity
        /\ ts > 0

\* v plus the exact sum k, rounded to f32 once
PlusExact(v, k) == IF IsFinite(v) THEN F(v + k) ELSE v

\* C14: a move with data (a, b) for a connected Player adds a to velocity.x
\* and b to velocity.y and changes nothing else; after a run of moves with no
\* tick in between the Player's velocity is its velocity before the run plus
\* the sum of the impulses.
C14_VelocityIsSumOfImpulses ==
    /\ [][(/\ HandleCommand
           /\ ~poisoned
           /\ Head(mailbox).kind = "move"
           /\ Len(Head(mailbox).data) = 2
           /\ HasPlayer(entities, Head(mailbox).id))
          => LET m == Head(mailbox) IN
             /\ entities' = [entities EXCEPT ![m.id].velocity =
                                <<FAdd(@[1], m.data[1]), FAdd(@[2], m.data[2])>>]
             /\ sessions' = sessions
             /\ game' = game]_vars
    /\ [](GameAlive =>
             \A s \in Sessions :
                 HasPlayer(entities, s) =>
                     entities[s].velocity = <<PlusExact(run[s].from[1], run[s].by[1]),
                                              PlusExact(run[s].from[2], run[s].by[2])>>)

\* v has length BulletSpeed and points along d, up to the rounding of the
\* integer arithmetic (5 units of length, one unit per component)
AimedAlong(v, d) ==
    /\ IsFinite(v[1]) /\ IsFinite(v[2]) /\ IsFinite(d[1]) /\ IsFinite(d[2])
    /\ v[1] * v[1] + v[2] * v[2] >= (BulletSpeed - 5) * (BulletSpeed - 5)
    /\ v[1] * v[1] + v[2] * v[2] <= (BulletSpeed + 5) * (BulletSpeed + 5)
    /\ Abs(v[1] * d[2] - v[2] * d[1]) <= Abs(d[1]) + Abs(d[2])
    /\ v[1] * d[1] + v[2] * d[2] >= 0

\* C15: a fire of a session that has a Player adds exactly one entity, a
\* Bullet under a key no entity had, owned by the session, at the Player's
\* position, with a velocity of length BulletSpeed from the Player's position
\* towards the click point; every other entity, the registry and the Game are
\* unchanged.
C15_FireSpawnsOneBullet ==
    [][(/\ HandleCommand
        /\ ~poisoned
        /\ Head(mailbox).kind = "fire"
        /\ Len(Head(mailbox).data) = 2
        /\ HasPlayer(entities, Head(mailbox).id))
       => LET m == Head(mailbox)
              player == entities[m.id]
          IN  /\ \E k \in DOMAIN entities' \ DOMAIN entities :
                    /\ DOMAIN entities' = DOMAIN entities \cup {k}
                    /\ entities'[k].kind = "Bullet"
                    /\ entities'[k].owner = m.id
                    /\ entities'[k].position = player.position
                    /\ AimedAlong(entities'[k].velocity,
                                  VSub(<<m.data[1], m.data[2]>>, player.position))
              /\ \A k \in DOMAIN entities : entities'[k] = entities[k]
              /\ sessions' = sessions
              /\ game' = game]_vars

\* C16: a tick with delta = 0 leaves the position and the velocity of every
\* entity as they were.
C16_ZeroDeltaTickChangesNothing ==
    [][(Tick /\ ~poisoned /\ now = start_time) =>
          \A k \in DOMAIN entities :
              /\ entities'[k].position = entities[k].position
              /\ entities'[k].velocity = entities[k].velocity]_vars

\* w is v * -0.8 (rounded down on the integers)
TimesMinusPoint8(v, w) ==
    IF v = NaN THEN w = NaN
    ELSE IF IsInf(v) THEN w = -v
    ELSE 5 * w <= -4 * v /\ -4 * v < 5 * w + 5

\* one axis of a Player over a tick: position p and velocity v before, q and
\* w after, the arena reaching from 0 to hi
BouncedOrMoved(p, v, q, w, delta, hi) ==
    LET next == FAdd(p, FMul(v, delta)) IN
    /\ FLt(next, 0) => (q = 0 /\ TimesMinusPoint8(v, w))
    /\ FLt(hi, next) => (q = hi /\ TimesMinusPoint8(v, w))
    /\ (next /= NaN /\ 0 <= next /\ next <= hi) => (q = next /\ w = v)

\* C17: over a tick a Player whose position + velocity * delta is below 0 or
\* above ArenaW on x (ArenaH on y) ends on that boundary with that velocity
\* component multiplied by -0.8, each axis by itself; one whose next position
\* is within the bounds, the boundaries included, takes it and keeps its
\* velocity.
C17_BounceAtTheBoundary ==
    [][(Tick /\ ~poisoned) =>
          \A k \in PlayerIds :
              LET delta == (now - start_time) * CheckInterval
                  e == entities[k]
                  n == entities'[k]
              IN  /\ BouncedOrMoved(e.position[1], e.velocity[1],
                                    n.position[1], n.velocity[1], delta, ArenaW)
                  /\ BouncedOrMoved(e.position[2], e.velocity[2],
                                    n.position[2], n.velocity[2], delta, ArenaH)]_vars

\* a Player that bounced off the upper boundaries in one tick and, in the
\* next, off the lower boundary of y while x moved freely
C17_Witness ==
    \E s \in Sessions :
        /\ HasPlayer(entities, s)
        /\ entities[s].position = <<700, 0>>
        /\ entities[s].velocity = <<-20, 192>>
        /\ GameAlive

\* C18: no step removes a Bullet or changes its key or owner, so the set of
\* Bullets only grows; handling the Disconnect of a session removes the entity
\* under the session's id, a Player, and nothing else, the Bullets the session
\* owns included.
C18_BulletsAreNeverRemoved ==
    [][/\ \A k \in BulletIds :
             /\ k \in DOMAIN entities'
             /\ entities'[k].kind = "Bullet"
             /\ entities'[k].id = entities[k].id
             /\ entities'[k].owner = entities[k].owner
       /\ (HandleDisconnect /\ ~poisoned) =>
             /\ Head(mailbox).id \notin BulletIds
             /\ DOMAIN entities' = DOMAIN entities \ {Head(mailbox).id}]_vars

\* the Player of a session is gone after its Disconnect and a Bullet it
\* fired is still in the world, flown on from where it was fired
C18_Witness ==
    \E s \in Sessions :
        /\ phase[s] = 2
        /\ s \notin DOMAIN entities
        /\ \E k \in BulletIds :
              /\ entities[k].owner = s
              /\ entities[k].position \notin SpawnPoints
        /\ GameAlive

\* C19: the position of every Player is within the arena, 0 to ArenaW on x
\* and 0 to ArenaH on y.
C19_PlayersStayInArena ==
    \A k \in PlayerIds :
        LET p == entities[k].position IN
        /\ p[1] /= NaN /\ 0 <= p[1] /\ p[1] <= ArenaW
        /\ p[2] /= NaN /\ 0 <= p[2] /\ p[2] <= ArenaH

\* C20: a liveness check stops the session when strictly more than Timeout
\* seconds have passed since the last inbound ping or pong, and otherwise
\* leaves it Active and sends a ping; so a session whose last ping or pong
\* came no earlier than the previous check is not stopped by the check.
C20_ResponsivePeerStaysOpen ==
    /\ [][\A s \in Sessions :
             CheckStep(s) =>
                 IF (now - lastBeat[s]) * CheckInterval > Timeout
                 THEN sstate'[s] = "Closing" /\ lastCheck'[s] = "stop"
                 ELSE sstate'[s] = "Active" /\ lastCheck'[s] = "ping"]_vars
    /\ [][\A s \in Sessions :
             (CheckStep(s) /\ lastBeat[s] + 1 >= now) => sstate'[s] = "Active"]_vars

\* a session older than the timeout whose peer's last pong came between the
\* previous check and this one: the check has sent a ping and left it Active
C20_Witness ==
    \E s \in Sessions :
        /\ sstate[s] = "Active"
        /\ now * CheckInterval > Timeout
        /\ checked[s]
        /\ lastCheck[s] = "ping"
        /\ lastBeat[s] + 1 = now

====
